---- MODULE Spec2Model ----
(***************************************************************************)
(* Model of blur::blur_renderer (blur.hpp): the per-frame entry point      *)
(* render(), the lazy pipeline initialisation, the render-target pool, the *)
(* activation debounce and the capture / two-pass blur / composite draw.   *)
(*                                                                         *)
(* Floating-point pixel sizes are counted in half pixels, so that the      *)
(* truncation static_cast<int>(float) is a real conversion.  Time and the  *)
(* delay are counted in ticks of the host clock (ImGui::GetTime()).        *)
(***************************************************************************)
EXTENDS Integers, Sequences, FiniteSets, TLC

\* ------------------------------------------------------------------ bounds
MaxTime == 1
MaxDelay == 1

\* ------------------------------------------------------- values and inputs
nullptr == 0
Devices == {1, 2}

\* window_size in half pixels: 1.0x1.0, 1.5x1.0, 2.0x1.0, 0.5x1.0, 1.0x-1.0
WindowSizes == {<<2, 2>>, <<3, 2>>, <<4, 2>>, <<1, 2>>, <<2, -2>>}
\* window_pos in half pixels and corner_radius: render() hands them to the
\* draw list and reads them for nothing else
WindowPositions == {<<0, 0>>, <<1, 3>>}
CornerRadii == {0, 2}

\* The creation call that fails during initialisation (0 = none): a compile,
\* the input layout (the shaders are held), the last render state.
InitFailures == {0, 1, 5, 10}
\* The creation call that fails in ensure_render_targets (0 = none): the
\* first texture, its view, the last view.
AllocFailures == {0, 1, 2, 8}

\* static_cast<int>(float): truncation toward zero of a value in half pixels
static_cast_int(x) == IF x >= 0 THEN x \div 2 ELSE -((-x) \div 2)

\* struct blur_params (the fields render() reads)
blur_params ==
    [device : {nullptr} \cup Devices, draw_list : BOOLEAN,
     window_pos : WindowPositions, window_size : WindowSizes,
     corner_radius : CornerRadii, delay_time : 0..MaxDelay]

\* ID3D11Texture2D*: the description of the allocation; a null handle has
\* no device
Texture(w, h, dev) == [w |-> w, h |-> h, dev |-> dev]
NullTexture == Texture(0, 0, nullptr)

\* class blur_renderer, default member initialisers
blur_renderer ==
    [device_ |-> nullptr, context_ |-> nullptr,
     vertex_shader_ |-> FALSE, pixel_shader_horizontal_ |-> FALSE,
     pixel_shader_vertical_ |-> FALSE, vertex_buffer_ |-> FALSE,
     constant_buffer_ |-> FALSE, input_layout_ |-> FALSE,
     sampler_state_ |-> FALSE, blend_state_ |-> FALSE,
     rasterizer_state_ |-> FALSE,
     background_capture_ |-> NullTexture, background_srv_ |-> FALSE,
     temp_texture_ |-> NullTexture, temp_rtv_ |-> FALSE, temp_srv_ |-> FALSE,
     blur_texture_ |-> NullTexture, blur_rtv_ |-> FALSE, blur_srv_ |-> FALSE,
     width_ |-> 0, height_ |-> 0,
     initialized_ |-> FALSE, background_captured_ |-> FALSE,
     blur_processed_ |-> FALSE, blur_enabled_last_frame_ |-> FALSE,
     blur_enable_time_ |-> 0, blur_capture_pending_ |-> FALSE]

\* A machine is the renderer's fields plus the log of the GPU / draw-list
\* calls issued so far in the current render() call.
\* draw_list: the commands appended to params.draw_list in this call.
Machine(s) == [s |-> s, log |-> <<>>, draw_list |-> <<>>]
\* a logged call is <<operation, object>>
Call(m, op, obj) == [m EXCEPT !.log = Append(@, <<op, obj>>)]

\* if (p) { p->Release(); p = nullptr; } for a handle field
ReleaseView(m, f) ==
    IF m.s[f] THEN Call([m EXCEPT !.s[f] = FALSE], "Release", f) ELSE m
ReleaseTexture(m, f) ==
    IF m.s[f] # NullTexture
    THEN Call([m EXCEPT !.s[f] = NullTexture], "Release", f)
    ELSE m

\* ------------------------------------------------------------ reset_state
\* reset_state that leaves blur_capture_pending_ as it is
reset_state_keep_pending(m) ==
    [m EXCEPT !.s.background_captured_ = FALSE,
              !.s.blur_processed_ = FALSE]

\* lines 425-429
reset_state(m) ==
    [m EXCEPT !.s.background_captured_ = FALSE,
              !.s.blur_processed_ = FALSE,
              !.s.blur_capture_pending_ = FALSE]

\* -------------------------------------------------- cleanup_render_targets
\* cleanup_render_targets that keeps the read view of the final texture
cleanup_render_targets_keep_view(m) ==
    LET m1 == ReleaseTexture(m, "background_capture_")
        m2 == ReleaseView(m1, "background_srv_")
        m3 == ReleaseTexture(m2, "temp_texture_")
        m4 == ReleaseView(m3, "temp_rtv_")
        m5 == ReleaseView(m4, "temp_srv_")
        m6 == ReleaseTexture(m5, "blur_texture_")
    IN  ReleaseView(m6, "blur_rtv_")

\* lines 431-440
cleanup_render_targets(m) ==
    LET m1 == ReleaseTexture(m, "background_capture_")
        m2 == ReleaseView(m1, "background_srv_")
        m3 == ReleaseTexture(m2, "temp_texture_")
        m4 == ReleaseView(m3, "temp_rtv_")
        m5 == ReleaseView(m4, "temp_srv_")
        m6 == ReleaseTexture(m5, "blur_texture_")
        m7 == ReleaseView(m6, "blur_rtv_")
    IN  ReleaseView(m7, "blur_srv_")

\* ------------------------------------------------------------- cleanup_all
\* if (context_) { context_->Release(); context_ = nullptr; }
ReleaseContext(m) ==
    IF m.s.context_ # nullptr
    THEN Call([m EXCEPT !.s.context_ = nullptr], "Release", "context_")
    ELSE m

cleanup_all(m) ==
    LET m0 == cleanup_render_targets(m)
        m1 == ReleaseView(m0, "vertex_shader_")
        m2 == ReleaseView(m1, "pixel_shader_horizontal_")
        m3 == ReleaseView(m2, "pixel_shader_vertical_")
        m4 == ReleaseView(m3, "vertex_buffer_")
        m5 == ReleaseView(m4, "constant_buffer_")
        m6 == ReleaseView(m5, "input_layout_")
        m7 == ReleaseView(m6, "sampler_state_")
        m8 == ReleaseView(m7, "blend_state_")
        m9 == ReleaseView(m8, "rasterizer_state_")
    IN  [ReleaseContext(m9) EXCEPT !.s.initialized_ = FALSE, !.s.device_ = nullptr]

\* One Create* call on device_: the call is logged; the handle is set only
\* when the call succeeds.
CreateObject(m, f, fails) ==
    LET c == Call(m, "Create", f)
    IN  IF fails THEN c ELSE [c EXCEPT !.s[f] = TRUE]

\* SUCCEEDED(device_->Create...(..., &f)): the machine after the call and
\* whether the call succeeded
Succeeded(m, f, fails) == [m |-> CreateObject(m, f, fails), ok |-> ~fails]
\* r && SUCCEEDED(device_->Create...(..., &f)): the call is made only when
\* the calls before it succeeded
AndSucceeded(r, f, fails) == IF r.ok THEN Succeeded(r.m, f, fails) ELSE r

\* ------------------------------------------------------ initialize_shaders
\* failAt: 0 = nothing fails; 1 = a D3DCompile fails; 2..5 = the creation of
\* the vertex shader, horizontal / vertical pixel shader, input layout fails.
initialize_shaders(m, failAt) ==
    LET c == Call(Call(Call(m, "D3DCompile", "vertex_shader_source_"),
                       "D3DCompile", "horizontal_blur_source_"),
                  "D3DCompile", "vertical_blur_source_")
    IN  IF failAt = 1 THEN [m |-> c, ok |-> FALSE]
        ELSE AndSucceeded(
                 AndSucceeded(
                     AndSucceeded(Succeeded(c, "vertex_shader_", failAt = 2),
                                  "pixel_shader_horizontal_", failAt = 3),
                     "pixel_shader_vertical_", failAt = 4),
                 "input_layout_", failAt = 5)

\* ------------------------------------------------ initialize_render_states
\* failAt: 6..10 = the creation of the vertex buffer, constant buffer,
\* sampler, blend state, rasterizer state fails; each failure returns false
\* at once.
initialize_render_states(m, failAt) ==
    AndSucceeded(
        AndSucceeded(
            AndSucceeded(
                AndSucceeded(Succeeded(m, "vertex_buffer_", failAt = 6),
                             "constant_buffer_", failAt = 7),
                "sampler_state_", failAt = 8),
            "blend_state_", failAt = 9),
        "rasterizer_state_", failAt = 10)

\* --------------------------------------------------- ensure_render_targets
\* create_texture lambda: CreateTexture2D, then the views that were asked
\* for; texFails / rtvFails / srvFails say which call fails.  rtv = "" when
\* no render-target view is asked for.
create_texture(m, w, h, tex, rtv, srv, texFails, rtvFails, srvFails) ==
    LET c == Call(m, "Create", tex)
    IN  IF texFails THEN [m |-> c, ok |-> FALSE]
        ELSE
        LET m1 == [c EXCEPT !.s[tex] = Texture(w, h, m.s.device_)]
            m2 == IF rtv # "" THEN CreateObject(m1, rtv, rtvFails) ELSE m1
        IN  IF rtv # "" /\ rtvFails THEN [m |-> m2, ok |-> FALSE]
            ELSE [m |-> CreateObject(m2, srv, srvFails), ok |-> ~srvFails]

\* r && create_texture(...): the next texture is asked for only when the
\* textures before it were created
and_create_texture(r, w, h, tex, rtv, srv, texFails, rtvFails, srvFails) ==
    IF r.ok
    THEN create_texture(r.m, w, h, tex, rtv, srv, texFails, rtvFails, srvFails)
    ELSE r

\* failAt: 0 = nothing fails; 1,2 = capture texture, its SRV; 3,4,5 = temp
\* texture, its RTV, its SRV; 6,7,8 = blur texture, its RTV, its SRV.
ensure_render_targets(m, width, height, failAt) ==
    LET e == Call(m, "enter", "ensure_render_targets")
    IN  IF e.s.background_capture_ # NullTexture
           /\ e.s.width_ = width /\ e.s.height_ = height
        THEN [m |-> e, ok |-> TRUE]
        ELSE and_create_texture(
                 and_create_texture(
                     create_texture(cleanup_render_targets(e), width, height,
                                    "background_capture_", "", "background_srv_",
                                    failAt = 1, FALSE, failAt = 2),
                     width, height, "temp_texture_", "temp_rtv_", "temp_srv_",
                     failAt = 3, failAt = 4, failAt = 5),
                 width, height, "blur_texture_", "blur_rtv_", "blur_srv_",
                 failAt = 6, failAt = 7, failAt = 8)

\* ------------------------------------------------------ capture_background
\* rtv: whether the host has a render target bound on the context
capture_background(m, rtv) ==
    LET c == Call(Call(m, "enter", "capture_background"), "OMGetRenderTargets", "context_")
    IN  IF ~rtv THEN [m |-> c, ok |-> FALSE]
        ELSE [m |-> [Call(c, "CopySubresourceRegion", "background_capture_")
                        EXCEPT !.s.background_captured_ = TRUE],
              ok |-> TRUE]

\* ------------------------------------------------------------ process_blur
\* process_blur with the vertical pass first
process_blur_vertical_first(m) ==
    IF ~m.s.background_captured_ THEN m
    ELSE [Call(Call(Call(m, "enter", "process_blur"), "Draw", "blur_rtv_"),
               "Draw", "temp_rtv_")
             EXCEPT !.s.blur_processed_ = TRUE]

\* lines 364-423: the two passes (the calls on the context are followed one
\* by one further down)
process_blur(m) ==
    IF ~m.s.background_captured_ THEN m
    ELSE [Call(Call(Call(m, "enter", "process_blur"), "Draw", "temp_rtv_"),
               "Draw", "blur_rtv_")
             EXCEPT !.s.blur_processed_ = TRUE]

\* ------------------------------------------------------------------ render
\* degenerate_size with < for <=
degenerate_size_strict(window_width, window_height) ==
    window_width < 0 \/ window_height < 0

\* line 149: the size check on the truncated window size
degenerate_size(window_width, window_height) ==
    window_width <= 0 \/ window_height <= 0

\* on_resize allocating the new textures at once, whatever should_blur is
on_resize_eager(m, window_width, window_height) ==
    IF m.s.width_ # window_width \/ m.s.height_ # window_height
    THEN ensure_render_targets(
             [reset_state(cleanup_render_targets(m))
                 EXCEPT !.s.width_ = window_width, !.s.height_ = window_height],
             window_width, window_height, 0).m
    ELSE m

\* on_resize that records the new size and keeps textures and state
on_resize_keep(m, window_width, window_height) ==
    [m EXCEPT !.s.width_ = window_width, !.s.height_ = window_height]

\* lines 153-158: a change of the truncated size drops the textures and the
\* activation state
on_resize(m, window_width, window_height) ==
    IF m.s.width_ # window_width \/ m.s.height_ # window_height
    THEN [reset_state(cleanup_render_targets(m))
             EXCEPT !.s.width_ = window_width, !.s.height_ = window_height]
    ELSE m

\* activation_edges that keeps the old blur_enable_time_ on a rising edge
activation_edges_no_stamp(m, should_blur, current_time) ==
    IF should_blur /\ ~m.s.blur_enabled_last_frame_
    THEN [reset_state(m) EXCEPT !.s.blur_capture_pending_ = TRUE]
    ELSE IF ~should_blur /\ m.s.blur_enabled_last_frame_
         THEN reset_state(m)
         ELSE m

\* activation_edges that re-arms on every frame with should_blur
activation_edges_every_frame(m, should_blur, current_time) ==
    IF should_blur
    THEN [reset_state(m) EXCEPT !.s.blur_capture_pending_ = TRUE,
                                !.s.blur_enable_time_ = current_time]
    ELSE IF ~should_blur /\ m.s.blur_enabled_last_frame_
         THEN reset_state(m)
         ELSE m

\* lines 160-167: the edges of should_blur against the previous frame
activation_edges(m, should_blur, current_time) ==
    IF should_blur /\ ~m.s.blur_enabled_last_frame_
    THEN [reset_state(m) EXCEPT !.s.blur_capture_pending_ = TRUE,
                                !.s.blur_enable_time_ = current_time]
    ELSE IF ~should_blur /\ m.s.blur_enabled_last_frame_
         THEN reset_state(m)
         ELSE m

\* delay_elapsed that ignores the delay
delay_elapsed_at_once(current_time, blur_enable_time, delay_time) ==
    current_time - blur_enable_time >= 0

\* line 170: the debounce test
delay_elapsed(current_time, blur_enable_time, delay_time) ==
    current_time - blur_enable_time >= delay_time

\* lines 169-179: the capture attempt once the delay has elapsed
capture_due(m, params, should_blur, env) ==
    /\ should_blur /\ m.s.blur_capture_pending_ /\ ~m.s.blur_processed_
    /\ delay_elapsed(env.time, m.s.blur_enable_time_, params.delay_time)

\* lines 174-177: if (capture_background()) process_blur();
blur_if_captured(c) == IF c.ok THEN process_blur(c.m) ELSE c.m
\* lines 173-178: if (ensure_render_targets(...)) { ... }
capture_if_ensured(e, rtv) ==
    IF e.ok THEN blur_if_captured(capture_background(e.m, rtv)) ELSE e.m

capture_when_due(m, params, should_blur, env) ==
    IF capture_due(m, params, should_blur, env)
    THEN capture_if_ensured(
             ensure_render_targets([m EXCEPT !.s.blur_capture_pending_ = FALSE],
                                   static_cast_int(params.window_size[1]),
                                   static_cast_int(params.window_size[2]),
                                   env.allocFailAt),
             env.rtv)
    ELSE m

\* lines 184-192: the arguments of AddImageRounded
AddImageRounded(m, user_texture_id, p_min, p_max, rounding) ==
    Call([m EXCEPT !.draw_list =
              Append(@, [user_texture_id |-> user_texture_id, p_min |-> p_min,
                         p_max |-> p_max, rounding |-> rounding])],
         "AddImageRounded", user_texture_id)

\* composite_draw that does not look at blur_srv_
composite_draw_unchecked(m, params, should_blur) ==
    IF should_blur /\ m.s.blur_processed_
    THEN AddImageRounded(m, "blur_srv_", params.window_pos,
                         <<params.window_pos[1] + params.window_size[1],
                           params.window_pos[2] + params.window_size[2]>>,
                         params.corner_radius)
    ELSE m

\* lines 183-193: the composite draw
composite_draw(m, params, should_blur) ==
    IF should_blur /\ m.s.blur_processed_ /\ m.s.blur_srv_
    THEN AddImageRounded(m, "blur_srv_", params.window_pos,
                         <<params.window_pos[1] + params.window_size[1],
                           params.window_pos[2] + params.window_size[2]>>,
                         params.corner_radius)
    ELSE m

Return(m, ret) ==
    [s |-> m.s, ret |-> ret, log |-> m.log, draw_list |-> m.draw_list]

\* lines 139-143: initialize_shaders() && initialize_render_states(), then
\* initialized_ = true
and_initialize_render_states(sh, failAt) ==
    IF sh.ok THEN initialize_render_states(sh.m, failAt) ELSE sh
\* set_initialized that marks the renderer initialised after a failure too
set_initialized_always(rs) ==
    [m |-> [rs.m EXCEPT !.s.initialized_ = TRUE], ok |-> rs.ok]

set_initialized(rs) ==
    IF rs.ok THEN [m |-> [rs.m EXCEPT !.s.initialized_ = TRUE], ok |-> TRUE] ELSE rs

\* lines 135-144: (re)initialisation for a new device
ensure_initialized(m, params, env) ==
    IF ~m.s.initialized_ \/ m.s.device_ # params.device
    THEN set_initialized(
             and_initialize_render_states(
                 initialize_shaders(
                     Call([cleanup_all(m) EXCEPT !.s.device_ = params.device,
                                                 !.s.context_ = params.device],
                          "GetImmediateContext", "device_"),
                     env.initFailAt),
                 env.initFailAt))
    ELSE [m |-> m, ok |-> TRUE]

\* bool blur_renderer::render(const blur_params& params, bool should_blur)
\* env: what the environment answers in this call: the clock, which creation
\* call fails (if one does) and whether the host has a render target bound.
\*
\* lines 144-167: after the initialisation (i) as far as the activation
\* edges.  done says that render() has returned (false) already.
render_initialized(i, params, should_blur, env) ==
    IF ~i.ok THEN [m |-> i.m, done |-> TRUE]
    ELSE
    LET window_width == static_cast_int(params.window_size[1])
        window_height == static_cast_int(params.window_size[2])
    IN  IF degenerate_size(window_width, window_height)
        THEN [m |-> i.m, done |-> TRUE]
        ELSE [m |-> activation_edges(on_resize(i.m, window_width, window_height),
                                     should_blur, env.time),
              done |-> FALSE]

\* lines 133-167: up to the activation edges
render_begin(s, params, should_blur, env) ==
    IF params.device = nullptr \/ ~params.draw_list
    THEN [m |-> Machine(s), done |-> TRUE]
    ELSE render_initialized(ensure_initialized(Machine(s), params, env),
                            params, should_blur, env)

\* lines 169-195: the capture attempt, the composite draw, the result
render_end(b, params, should_blur, env) ==
    IF b.done THEN Return(b.m, FALSE)
    ELSE
    LET c == capture_when_due(b.m, params, should_blur, env)
        l == [c EXCEPT !.s.blur_enabled_last_frame_ = should_blur]
    IN  Return(composite_draw(l, params, should_blur), TRUE)

render(s, params, should_blur, env) ==
    render_end(render_begin(s, params, should_blur, env), params, should_blur, env)

\* ========================================================= the blur shaders
\* horizontal_blur_source_ and vertical_blur_source_ (lines 87-125) differ
\* in the axis of sample_uv only.  Floats are fixed-point numbers, Unit to
\* the one; the value of a channel of a texel is n / 255.
Unit == 10000
ExpTerms == 8
radius == 4
SampleValues == {0, 128, 255}
PixelShaders == {"horizontal_blur_source_", "vertical_blur_source_"}

\* exp(n / d) for n / d >= 0: the terms x^k / k! from the k-th on, summed
\* up to the ExpTerms-th
RECURSIVE exp_series(_, _, _, _)
exp_series(n, d, k, term) ==
    IF k > ExpTerms THEN 0
    ELSE term + exp_series(n, d, k + 1, (term * n) \div (d * k))
\* exp(-n / d)
exp(n, d) == (Unit * Unit) \div exp_series(n, d, 1, Unit)

\* line 100 / 120: exp(-0.5f * (i * i) / (radius * radius * 0.5f)); the two
\* factors 0.5f cancel
weight(i) == exp(i * i, radius * radius)

\* color / total_weight that divides by the number of taps
divide_by_taps(color, total_weight) ==
    [num |-> color, den |-> (2 * radius + 1) * Unit]

\* line 104 / 124: color / total_weight, as a fraction
divide(color, total_weight) == [num |-> color, den |-> total_weight]

\* the state of one invocation of main: the loop variable, the values
\* Sample returned so far, the accumulators and the value returned
NoShader ==
    [source |-> "none", i |-> 0, samples |-> <<>>, color |-> 0,
     total_weight |-> 0, returned |-> FALSE, value |-> divide(0, 1)]

\* ===================================================== the device context
\* What capture_background and process_blur do to the immediate context,
\* call by call.  Views are named; "null" is the null pointer.  Bindings
\* are kept as the calls ask for them: the check is that the code never
\* asks for a conflicting one.
MaxLeaked == 2
HostObjects == {"host_rtv", "host_dsv", "back_buffer"}
ZeroViewport == <<0, 0>>
HostViewports == {<<>>, <<<<8, 6>>>>, <<<<8, 6>>, <<4, 3>>>>}
\* lines 395-399: width_ x height_
OwnViewport == <<2, 1>>
\* the views in the order ensure_render_targets creates them (lines 328-330)
TargetViews == <<"background_srv_", "temp_rtv_", "temp_srv_", "blur_rtv_", "blur_srv_">>
TextureOf(view) ==
    CASE view \in {"temp_rtv_", "temp_srv_"} -> "temp_texture_"
      [] view \in {"blur_rtv_", "blur_srv_"} -> "blur_texture_"
      [] view = "background_srv_" -> "background_capture_"
      [] view = "host_rtv" -> "back_buffer"
      [] view = "host_srv" -> "host_texture"
      [] OTHER -> "null"

Statement(op, arg) == [op |-> op, arg |-> arg]

\* lines 333-362
capture_background_body ==
    <<Statement("OMGetRenderTargets", "current"),
      Statement("return if not", "current_rtv"),
      Statement("GetResource", "back_buffer"),
      Statement("CopySubresourceRegion", "back_buffer"),
      Statement("Release", "current_rtv"),
      Statement("Release", "current_dsv"),
      Statement("return", "success")>>

\* process_blur whose second pass reads the texture it writes
process_blur_body_feedback ==
    <<Statement("return if not", "background_captured_"),
      Statement("OMGetRenderTargets", "original"),
      Statement("RSGetViewports", "original_viewport"),
      Statement("set pipeline", "null"),
      Statement("RSSetViewports", "viewport"),
      Statement("OMSetRenderTargets", "temp_rtv_"),
      Statement("PSSetShader", "pixel_shader_horizontal_"),
      Statement("PSSetShaderResources", "background_srv_"),
      Statement("Draw", "null"),
      Statement("OMSetRenderTargets", "blur_rtv_"),
      Statement("PSSetShader", "pixel_shader_vertical_"),
      Statement("PSSetShaderResources", "blur_srv_"),
      Statement("Draw", "null"),
      Statement("OMSetRenderTargets", "original"),
      Statement("RSSetViewports", "original_viewport"),
      Statement("PSSetShaderResources", "null"),
      Statement("Release", "original_rtv"),
      Statement("Release", "original_dsv"),
      Statement("return", "blur_processed_")>>

\* lines 364-423; "set pipeline" is lines 375-393, which touch neither the
\* render targets, nor the viewports, nor the shader resources
process_blur_body ==
    <<Statement("return if not", "background_captured_"),
      Statement("OMGetRenderTargets", "original"),
      Statement("RSGetViewports", "original_viewport"),
      Statement("set pipeline", "null"),
      Statement("RSSetViewports", "viewport"),
      Statement("OMSetRenderTargets", "temp_rtv_"),
      Statement("PSSetShader", "pixel_shader_horizontal_"),
      Statement("PSSetShaderResources", "background_srv_"),
      Statement("Draw", "null"),
      Statement("OMSetRenderTargets", "blur_rtv_"),
      Statement("PSSetShader", "pixel_shader_vertical_"),
      Statement("PSSetShaderResources", "temp_srv_"),
      Statement("Draw", "null"),
      Statement("OMSetRenderTargets", "original"),
      Statement("RSSetViewports", "original_viewport"),
      Statement("PSSetShaderResources", "null"),
      Statement("Release", "original_rtv"),
      Statement("Release", "original_dsv"),
      Statement("return", "blur_processed_")>>

NoLocals ==
    [current_rtv |-> "null", current_dsv |-> "null", back_buffer |-> "null",
     success |-> FALSE, original_rtv |-> "null", original_dsv |-> "null",
     original_viewport |-> ZeroViewport]
NoBindings == [rtv |-> "null", dsv |-> "null", viewport |-> ZeroViewport]

\* om_rtv, om_dsv, viewports, ps_srv: what is bound on the context;
\* refs: the references the renderer holds on the host's objects;
\* created: how many of TargetViews are held; fn, at: the statement to run
\* next; returned: the function that returned last; entry: the bindings
\* when process_blur was entered
NoContext ==
    [om_rtv |-> "null", om_dsv |-> "null", viewports |-> <<>>, ps_srv |-> "null",
     refs |-> [o \in HostObjects |-> 0], created |-> 0,
     background_captured_ |-> FALSE, blur_processed_ |-> FALSE,
     fn |-> "idle", at |-> 1, returned |-> "none",
     locals |-> NoLocals, entry |-> NoBindings]

\* the view a member of the renderer points to
View(c, name) ==
    IF \E k \in 1..c.created : TargetViews[k] = name THEN name ELSE "null"
\* what RSGetViewports(&num_viewports = 1, &v) stores in v: the first
\* viewport bound, zeros when none is
FirstViewport(c) == IF Len(c.viewports) > 0 THEN c.viewports[1] ELSE ZeroViewport

AddRef(c, object) ==
    IF object = "null" THEN c ELSE [c EXCEPT !.refs[object] = @ + 1]
\* if (p) p->Release();
Release(c, object) ==
    IF object = "null" THEN c ELSE [c EXCEPT !.refs[object] = @ - 1]

ReturnFrom(c) == [c EXCEPT !.fn = "idle", !.at = 1, !.returned = c.fn]
\* lines 173-177: process_blur is called when capture_background returns true
ReturnFromCapture(c) ==
    IF c.locals.success
    THEN [c EXCEPT !.fn = "process_blur", !.at = 1,
                   !.returned = "capture_background",
                   !.entry = [rtv |-> c.om_rtv, dsv |-> c.om_dsv,
                              viewport |-> FirstViewport(c)]]
    ELSE ReturnFrom(c)

OMGetRenderTargets(c, rtv, dsv) ==
    AddRef(AddRef([c EXCEPT !.locals[rtv] = c.om_rtv, !.locals[dsv] = c.om_dsv],
                  c.om_rtv),
           c.om_dsv)
\* lines 343-357
CopyIfBackBuffer(c) ==
    IF c.locals.back_buffer # "null"
    THEN Release([c EXCEPT !.background_captured_ = TRUE, !.locals.success = TRUE],
                 c.locals.back_buffer)
    ELSE c

\* one statement of either function, run on the context
Exec(c, st) ==
    CASE st.op = "OMGetRenderTargets" /\ st.arg = "current" ->
             OMGetRenderTargets(c, "current_rtv", "current_dsv")
      [] st.op = "OMGetRenderTargets" /\ st.arg = "original" ->
             OMGetRenderTargets(c, "original_rtv", "original_dsv")
      [] st.op = "return if not" /\ st.arg = "current_rtv" ->
             IF c.locals.current_rtv = "null" THEN ReturnFrom(c) ELSE c
      [] st.op = "return if not" /\ st.arg = "background_captured_" ->
             IF ~c.background_captured_ THEN ReturnFrom(c) ELSE c
      [] st.op = "GetResource" ->
             AddRef([c EXCEPT !.locals.back_buffer = TextureOf(c.locals.current_rtv)],
                    TextureOf(c.locals.current_rtv))
      [] st.op = "CopySubresourceRegion" -> CopyIfBackBuffer(c)
      [] st.op = "Release" -> Release(c, c.locals[st.arg])
      [] st.op = "RSGetViewports" ->
             [c EXCEPT !.locals.original_viewport = FirstViewport(c)]
      [] st.op = "RSSetViewports" /\ st.arg = "viewport" ->
             [c EXCEPT !.viewports = <<OwnViewport>>]
      [] st.op = "RSSetViewports" /\ st.arg = "original_viewport" ->
             [c EXCEPT !.viewports = <<c.locals.original_viewport>>]
      [] st.op = "OMSetRenderTargets" /\ st.arg = "original" ->
             [c EXCEPT !.om_rtv = c.locals.original_rtv,
                       !.om_dsv = c.locals.original_dsv]
      [] st.op = "OMSetRenderTargets" /\ st.arg # "original" ->
             [c EXCEPT !.om_rtv = View(c, st.arg), !.om_dsv = "null"]
      [] st.op = "PSSetShaderResources" ->
             [c EXCEPT !.ps_srv = View(c, st.arg)]
      [] st.op = "return" /\ st.arg = "success" -> ReturnFromCapture(c)
      [] st.op = "return" /\ st.arg = "blur_processed_" ->
             ReturnFrom([c EXCEPT !.blur_processed_ = TRUE])
      [] OTHER -> c
\* the statement is run and control passes to the next one, unless the
\* statement returned or called
Step(c, body) ==
    LET d == Exec(c, body[c.at])
    IN  IF d.fn = c.fn /\ d.at = c.at THEN [d EXCEPT !.at = c.at + 1] ELSE d

\* ===================================================== the host's frame loop
VARIABLES
    g_blur_renderer,  \* the renderer instance (line 461)
    now,              \* ImGui::GetTime()
    last,             \* the render() call of this step: what was asked,
                      \* the result and the kinds of calls it issued
    ever,             \* which values of should_blur the calls so far have had
    seen_all,         \* should_blur history over every render() call
    seen_acc,         \* should_blur history over the calls that returned true
    captures,         \* captures since the latest activation edge or resize
    retry,            \* a capture failed for want of a bound render target
    resized,          \* a resize hit the Captured state, should_blur held since
    stale,            \* a resize hit the Captured state, no fresh capture yet
    fresh,            \* a newly constructed renderer fed the same calls since
                      \* the last device change that hit the Captured state
    effects,          \* the render() call of this step: what it did in detail
    written,          \* blur_texture_ holds the result of both blur passes
    shader,           \* one invocation of a blur pixel shader, for one channel
    context           \* the immediate context and the capture / blur code
                      \* running on it

vars == <<g_blur_renderer, now, last, ever, seen_all, seen_acc, captures,
          retry, resized, stale, fresh, effects, written, shader, context>>

Issued(log, op, obj) == \E k \in 1..Len(log) : log[k] = <<op, obj>>

\* The calls the host makes; the window is at the origin with square
\* corners or away from it with round ones.  A call that returns before it reads the size
\* or the delay is made with one size and one delay.
DrawCalls ==
    {p \in blur_params :
        /\ p.window_pos = <<0, 0>> <=> p.corner_radius = 0
        /\ ~p.draw_list => p.device = 1
        /\ (p.device = nullptr \/ ~p.draw_list) => p.window_size = <<2, 2>>
        /\ (\/ p.device = nullptr \/ ~p.draw_list
            \/ static_cast_int(p.window_size[1]) <= 0
            \/ static_cast_int(p.window_size[2]) <= 0)
               => p.delay_time = 0}
\* the same calls at one position with one corner radius
Calls == {p \in DrawCalls : p.window_pos = <<0, 0>> /\ p.corner_radius = 0}

Env(t, i, a, rtv) == [time |-> t, initFailAt |-> i, allocFailAt |-> a, rtv |-> rtv]

\* The answers of the environment are drawn only for the calls render()
\* really makes: the creation calls of initialisation, the creation calls of
\* the textures, and OMGetRenderTargets in capture_background.
InitChoices(s, p) ==
    IF p.device # nullptr /\ p.draw_list /\ (~s.initialized_ \/ s.device_ # p.device)
    THEN IF p.window_size = <<2, 2>> /\ p.delay_time = 0 THEN InitFailures ELSE {0}
    ELSE {0}
\* b: the call as far as the activation edges (render_begin)
AllocChoices(b, p, sb, env) ==
    IF ~b.done /\ capture_due(b.m, p, sb, env)
       /\ b.m.s.background_capture_ = NullTexture
    THEN AllocFailures ELSE {0}
RtvChoices(b, p, sb, env, a) ==
    IF ~b.done /\ capture_due(b.m, p, sb, env)
       /\ (a = 0 \/ b.m.s.background_capture_ # NullTexture)
    THEN BOOLEAN ELSE {TRUE}

\* ------------------------------------------------------ history bookkeeping
NoHistory == [prev |-> FALSE, rise |-> 0, ripe |-> FALSE]

\* One more call with this should_blur at time t under delay d.  rise is the
\* time of the latest false-to-true edge, ripe whether some call since the
\* edge (this one included) had t - rise >= its delay.
Observe(h, sb, t, d) ==
    IF sb
    THEN LET rise == IF ~h.prev THEN t ELSE h.rise
         IN  [prev |-> TRUE, rise |-> rise,
              ripe |-> (h.prev /\ h.ripe) \/ (t - rise >= d)]
    ELSE NoHistory

\* whether this call itself has t - rise >= d
Due(h, sb, t, d) == sb /\ t - (IF ~h.prev THEN t ELSE h.rise) >= d

\* The kind of a logged call: a Release / Create keeps only whether the
\* handle belongs to the texture set or to the pipeline.
TargetHandles ==
    {"background_capture_", "background_srv_", "temp_texture_", "temp_rtv_",
     "temp_srv_", "blur_texture_", "blur_rtv_", "blur_srv_"}
Kind(e) ==
    IF e[1] \in {"Release", "Create"}
    THEN <<e[1], IF e[2] \in TargetHandles THEN "target" ELSE "pipeline">>
    ELSE IF e[1] = "D3DCompile" THEN <<e[1], "source">>
    ELSE e
Kinds(log) == {Kind(log[k]) : k \in 1..Len(log)}

\* how many times a call was issued
Count(log, op, obj) == Cardinality({k \in 1..Len(log) : log[k] = <<op, obj>>})

\* The place of an event in the order of lines 169-193: the allocation, the
\* capture, the horizontal pass, the vertical pass, the composite draw
\* (0: an event the order says nothing about).
Rank(e) ==
    IF e = <<"enter", "ensure_render_targets">> THEN 1
    ELSE IF e = <<"enter", "capture_background">> THEN 2
    ELSE IF e = <<"OMGetRenderTargets", "context_">> THEN 3
    ELSE IF e = <<"CopySubresourceRegion", "background_capture_">> THEN 4
    ELSE IF e = <<"enter", "process_blur">> THEN 5
    ELSE IF e = <<"Draw", "temp_rtv_">> THEN 6
    ELSE IF e = <<"Draw", "blur_rtv_">> THEN 7
    ELSE IF e = <<"AddImageRounded", "blur_srv_">> THEN 8
    ELSE 0
\* a sequence of events whose places strictly increase
Increasing(events) ==
    \A k \in 1..(Len(events) - 1) : Rank(events[k]) < Rank(events[k + 1])
\* the events of one call come in that order, each at most once, a capture
\* only after the allocation and the blur passes only after a capture
InOrder(log) ==
    /\ Increasing(SelectSeq(log, LAMBDA e : Rank(e) # 0))
    /\ Issued(log, "enter", "capture_background")
           => Issued(log, "enter", "ensure_render_targets")
    /\ Issued(log, "enter", "process_blur")
           => Issued(log, "CopySubresourceRegion", "background_capture_")
    /\ Issued(log, "Draw", "blur_rtv_") => Issued(log, "Draw", "temp_rtv_")

NoCall ==
    [called |-> FALSE, should_blur |-> FALSE, null_handle |-> FALSE,
     degenerate |-> FALSE, resize_hit |-> FALSE, init_failed |-> FALSE,
     steady |-> FALSE,
     retry_due |-> FALSE, rtv |-> TRUE, size |-> <<0, 0>>,
     due_all |-> FALSE, due_acc |-> FALSE,
     ret |-> FALSE, calls |-> {}]

NoEffects ==
    [valid_device |-> FALSE, uninit_before |-> FALSE, init_tries |-> 0,
     draw_list |-> <<>>, window_pos |-> <<0, 0>>, window_size |-> <<0, 0>>,
     corner_radius |-> 0, should_blur |-> FALSE, in_order |-> TRUE]

NoShadow == [on |-> FALSE, agree |-> TRUE, s |-> blur_renderer]
NoResize ==
    [active |-> FALSE, t |-> 0, later |-> FALSE, owed |-> FALSE, drawn |-> FALSE]
NotStale == [on |-> FALSE, rearmed |-> FALSE]

\* what a caller can observe of a call's log: captures, blur passes, draws
Observable(log) ==
    SelectSeq(log, LAMBDA e : e[1] \in {"CopySubresourceRegion", "Draw", "AddImageRounded"}
                              \/ e \in {<<"enter", "capture_background">>,
                                        <<"enter", "process_blur">>})

Init ==
    /\ g_blur_renderer = blur_renderer
    /\ now = 0
    /\ last = NoCall
    /\ ever = [on |-> FALSE, off |-> FALSE, off_acc |-> FALSE]
    /\ seen_all = NoHistory
    /\ seen_acc = NoHistory
    /\ captures = 0
    /\ retry = FALSE
    /\ resized = NoResize
    /\ stale = NotStale
    /\ fresh = NoShadow
    /\ effects = NoEffects
    /\ written = FALSE
    /\ shader = NoShader
    /\ context = NoContext

\* the host clock advances between frames
Tick ==
    /\ now < MaxTime
    /\ now' = now + 1
    /\ last' = NoCall
    /\ effects' = NoEffects
    /\ UNCHANGED <<g_blur_renderer, ever, seen_all, seen_acc, captures,
                   retry, resized, stale, fresh, written, shader, context>>

\* a call on another device than the one the renderer holds, made in the
\* Captured state, whose initialisation succeeds
DeviceChanged(s, p, i) ==
    /\ s.initialized_ /\ s.blur_processed_ /\ p.draw_list
    /\ p.device # nullptr /\ p.device # s.device_ /\ i = 0

\* render_blur_overlay(params, should_blur): one frame.  i / a / rtv are
\* the environment's answers, out the result of g_blur_renderer.render(),
\* shadow the result of render() on the newly constructed renderer.
\* shadowed: whether the newly constructed renderer is followed (fresh) or
\* the histories are.
RenderFrame(p, sb, i, a, rtv, out, shadow, shadowed) ==
    LET s == g_blur_renderer
        w == static_cast_int(p.window_size[1])
        h == static_cast_int(p.window_size[2])
        sameDevice == s.initialized_ /\ p.device = s.device_
        sizeChanged == s.width_ # w \/ s.height_ # h
        captured == Issued(out.log, "CopySubresourceRegion", "background_capture_")
        drew == Issued(out.log, "AddImageRounded", "blur_srv_")
        edge == sb /\ ~seen_acc.prev
        hitCaptured == out.ret /\ s.blur_processed_ /\ sizeChanged
        held == out.ret /\ sb /\ sameDevice /\ ~sizeChanged
        agree == out.ret = shadow.ret /\ Observable(out.log) = Observable(shadow.log)
    IN  /\ g_blur_renderer' = out.s
        /\ last' = [called |-> TRUE, should_blur |-> out.ret /\ sb,
                    null_handle |-> p.device = nullptr \/ ~p.draw_list,
                    degenerate |-> w <= 0 \/ h <= 0,
                    resize_hit |-> hitCaptured,
                    init_failed |-> i # 0,
                    steady |-> s.blur_processed_ /\ sb /\ sameDevice /\ ~sizeChanged,
                    retry_due |-> ~shadowed /\ retry /\ held,
                    rtv |-> rtv,
                    size |-> IF out.ret THEN <<w, h>> ELSE <<0, 0>>,
                    due_all |-> ~shadowed /\ Due(seen_all, sb, now, p.delay_time),
                    due_acc |-> ~shadowed /\ out.ret /\ Due(seen_acc, sb, now, p.delay_time),
                    ret |-> out.ret, calls |-> Kinds(out.log)]
        /\ IF shadowed
           THEN /\ fresh' =
                       IF DeviceChanged(s, p, i) \/ (fresh.on /\ fresh.agree)
                       THEN IF agree /\ shadow.s = out.s THEN NoShadow
                            ELSE [on |-> TRUE, agree |-> agree, s |-> shadow.s]
                       ELSE NoShadow
                /\ UNCHANGED <<ever, seen_all, seen_acc, captures,
                               retry, resized, stale>>
           ELSE /\ ever' = [on |-> ever.on \/ sb, off |-> ever.off \/ ~sb,
                            off_acc |-> ever.off_acc \/ (out.ret /\ ~sb)]
                /\ seen_all' = Observe(seen_all, sb, now, p.delay_time)
                /\ seen_acc' = IF out.ret THEN Observe(seen_acc, sb, now, p.delay_time)
                               ELSE seen_acc
                /\ captures' =
                       IF ~out.ret THEN captures
                       ELSE IF ~sb THEN 0
                       ELSE LET n == (IF edge \/ sizeChanged THEN 0 ELSE captures)
                                     + (IF captured THEN 1 ELSE 0)
                            IN  IF n > 2 THEN 2 ELSE n
                /\ retry' = \/ (out.ret /\ Issued(out.log, "enter", "capture_background")
                                /\ ~captured)
                            \/ (retry /\ held /\ ~captured)
                /\ resized' =
                       IF hitCaptured /\ sb /\ sameDevice
                       THEN [active |-> TRUE, t |-> now, later |-> FALSE,
                             owed |-> FALSE, drawn |-> drew]
                       ELSE IF resized.active /\ held /\ a = 0 /\ rtv
                            THEN [resized EXCEPT
                                     !.later = TRUE,
                                     !.owed = now - resized.t >= p.delay_time,
                                     !.drawn = @ \/ drew]
                            ELSE NoResize
                /\ stale' =
                       IF hitCaptured THEN [on |-> TRUE, rearmed |-> FALSE]
                       ELSE IF ~stale.on \/ ~out.ret THEN stale
                       ELSE LET rearmed == stale.rearmed \/ edge
                            IN  IF rearmed /\ captured
                                   /\ Due(seen_acc, sb, now, p.delay_time)
                                THEN NotStale
                                ELSE [on |-> TRUE, rearmed |-> rearmed]
                /\ UNCHANGED fresh
        /\ UNCHANGED <<now, effects, written, shader, context>>

\* the rest of a frame whose call has run as far as the activation edges (b)
FrameFrom(p, sb, i, b, shadowed) ==
    \E a \in AllocChoices(b, p, sb, Env(now, i, 0, TRUE)) :
        \E rtv \in RtvChoices(b, p, sb, Env(now, i, 0, TRUE), a) :
            RenderFrame(p, sb, i, a, rtv,
                        render_end(b, p, sb, Env(now, i, a, rtv)),
                        render(IF DeviceChanged(g_blur_renderer, p, i)
                               THEN blur_renderer ELSE fresh.s,
                               p, sb, Env(now, i, a, rtv)),
                        shadowed)

Frames(shadowed) ==
    \E p \in Calls, sb \in BOOLEAN :
        \E i \in InitChoices(g_blur_renderer, p) :
            FrameFrom(p, sb, i,
                      render_begin(g_blur_renderer, p, sb, Env(now, i, 0, TRUE)),
                      shadowed)

Render == Frames(FALSE)
RenderShadowed == Frames(TRUE)

Next == Tick \/ Render
NextDevice == Tick \/ RenderShadowed

\* the frame loop, with the histories of should_blur, resizes and retries
Spec == Init /\ [][Next]_vars
\* the frame loop, with a newly constructed renderer run alongside
SpecDevice == Init /\ [][NextDevice]_vars

\* -------------------------------------------------- one frame, in detail
\* all eight texture / view handles are held
FullSet(s) ==
    /\ s.background_capture_ # NullTexture /\ s.background_srv_
    /\ s.temp_texture_ # NullTexture /\ s.temp_rtv_ /\ s.temp_srv_
    /\ s.blur_texture_ # NullTexture /\ s.blur_rtv_ /\ s.blur_srv_
\* all nine pipeline objects are held
FullPipeline(s) ==
    /\ s.vertex_shader_ /\ s.pixel_shader_horizontal_ /\ s.pixel_shader_vertical_
    /\ s.input_layout_ /\ s.vertex_buffer_ /\ s.constant_buffer_
    /\ s.sampler_state_ /\ s.blend_state_ /\ s.rasterizer_state_
\* none of the nine pipeline objects is held
NoPipeline(s) ==
    /\ ~s.vertex_shader_ /\ ~s.pixel_shader_horizontal_ /\ ~s.pixel_shader_vertical_
    /\ ~s.input_layout_ /\ ~s.vertex_buffer_ /\ ~s.constant_buffer_
    /\ ~s.sampler_state_ /\ ~s.blend_state_ /\ ~s.rasterizer_state_

\* Whether blur_texture_ holds the result of both passes after this call
\* (out): the passes of process_blur write it when they run with the views
\* and the pipeline they bind; releasing or creating the texture empties it.
Written(out, before) ==
    IF /\ Issued(out.log, "Draw", "temp_rtv_") /\ Issued(out.log, "Draw", "blur_rtv_")
       /\ Increasing(SelectSeq(out.log, LAMBDA e : e[1] = "Draw"))
       /\ FullPipeline(out.s)
       /\ out.s.background_srv_ /\ out.s.temp_rtv_ /\ out.s.temp_srv_
       /\ out.s.blur_rtv_ /\ out.s.blur_texture_ # NullTexture
    THEN TRUE
    ELSE IF \/ Issued(out.log, "Release", "blur_texture_")
            \/ Issued(out.log, "Create", "blur_texture_")
         THEN FALSE
         ELSE before

\* render_blur_overlay(params, should_blur): one frame, observed call by
\* call instead of through the histories of should_blur
EffectsFrame(p, sb, i, rtv, out) ==
    LET s == g_blur_renderer
        w == static_cast_int(p.window_size[1])
        h == static_cast_int(p.window_size[2])
    IN  /\ g_blur_renderer' = out.s
        /\ last' = [NoCall EXCEPT
                        !.called = TRUE, !.should_blur = out.ret /\ sb,
                        !.null_handle = p.device = nullptr \/ ~p.draw_list,
                        !.degenerate = w <= 0 \/ h <= 0,
                        !.init_failed = i # 0,
                        !.rtv = rtv,
                        !.size = IF out.ret THEN <<w, h>> ELSE <<0, 0>>,
                        !.ret = out.ret, !.calls = Kinds(out.log)]
        /\ effects' =
               [valid_device |-> p.device # nullptr,
                uninit_before |-> ~s.initialized_ /\ s.device_ # nullptr,
                init_tries |-> Count(out.log, "GetImmediateContext", "device_"),
                draw_list |-> out.draw_list,
                window_pos |-> IF out.draw_list # <<>> THEN p.window_pos ELSE <<0, 0>>,
                window_size |-> IF out.draw_list # <<>> THEN p.window_size ELSE <<0, 0>>,
                corner_radius |-> IF out.draw_list # <<>> THEN p.corner_radius ELSE 0,
                should_blur |-> sb,
                in_order |-> InOrder(out.log)]
        /\ written' = Written(out, written)
        /\ UNCHANGED <<now, ever, seen_all, seen_acc, captures, retry,
                       resized, stale, fresh, shader, context>>

EffectsFrom(p, sb, i, b) ==
    \E a \in AllocChoices(b, p, sb, Env(now, i, 0, TRUE)) :
        \E rtv \in RtvChoices(b, p, sb, Env(now, i, 0, TRUE), a) :
            EffectsFrame(p, sb, i, rtv, render_end(b, p, sb, Env(now, i, a, rtv)))

RenderEffects ==
    \E p \in DrawCalls, sb \in BOOLEAN :
        \E i \in InitChoices(g_blur_renderer, p) :
            EffectsFrom(p, sb, i,
                        render_begin(g_blur_renderer, p, sb, Env(now, i, 0, TRUE)))

NextEffects == Tick \/ RenderEffects

\* the frame loop, with each call observed in detail
SpecEffects == Init /\ [][NextEffects]_vars

\* ================================================ a blur pass, tap by tap
\* Draw(4, 0) in process_blur runs main of the bound pixel shader for
\* a pixel.  blur_strength and input.uv enter sample_uv only (lines 98-99 /
\* 118-119): they choose which value Sample returns.
Invoke ==
    /\ shader.source = "none" \/ shader.returned
    /\ \E source \in PixelShaders :
           shader' = [NoShader EXCEPT !.source = source, !.i = -radius]
    /\ UNCHANGED <<g_blur_renderer, now, last, ever, seen_all, seen_acc,
                   captures, retry, resized, stale, fresh, effects, written,
                   context>>

\* lines 97-103 / 117-123: one turn of the loop
Tap ==
    /\ shader.source # "none" /\ ~shader.returned
    /\ shader.i <= radius
    /\ \E sample \in SampleValues :
           shader' = [shader EXCEPT
                         !.samples = Append(@, sample),
                         !.color = @ + sample * weight(shader.i),
                         !.total_weight = @ + weight(shader.i),
                         !.i = @ + 1]
    /\ UNCHANGED <<g_blur_renderer, now, last, ever, seen_all, seen_acc,
                   captures, retry, resized, stale, fresh, effects, written,
                   context>>

\* line 104 / 124: return color / total_weight
ReturnColor ==
    /\ shader.source # "none" /\ ~shader.returned
    /\ shader.i > radius
    /\ shader' = [shader EXCEPT
                     !.returned = TRUE,
                     !.value = divide(shader.color, shader.total_weight)]
    /\ UNCHANGED <<g_blur_renderer, now, last, ever, seen_all, seen_acc,
                   captures, retry, resized, stale, fresh, effects, written,
                   context>>

NextShader == Invoke \/ Tap \/ ReturnColor

SpecShader == Init /\ [][NextShader]_vars

\* ===================================== a capture, statement by statement
\* render() reaches line 174: ensure_render_targets returned true, with the
\* whole texture set or (after a failed allocation, lines 304-306) a part
\* of it.  The host has bound what it likes; slot 0 of the pixel shader
\* holds nothing, a texture of the host, or the blur texture the draw list
\* of an earlier frame showed.
RenderCaptures ==
    /\ context.fn = "idle"
    /\ \A o \in HostObjects : context.refs[o] < MaxLeaked
    /\ \E rtv \in {"null", "host_rtv"}, dsv \in {"null", "host_dsv"},
          viewports \in HostViewports, created \in 0..Len(TargetViews),
          srv \in {"null", "host_srv", "blur_srv_"} :
           /\ srv = "blur_srv_" => created = Len(TargetViews)
           /\ context' = [NoContext EXCEPT
                              !.om_rtv = rtv, !.om_dsv = dsv,
                              !.viewports = viewports, !.ps_srv = srv,
                              !.created = created, !.refs = context.refs,
                              !.fn = "capture_background"]
    /\ UNCHANGED <<g_blur_renderer, now, last, ever, seen_all, seen_acc,
                   captures, retry, resized, stale, fresh, effects, written,
                   shader>>

CaptureBackgroundStep ==
    /\ context.fn = "capture_background"
    /\ context' = Step(context, capture_background_body)
    /\ UNCHANGED <<g_blur_renderer, now, last, ever, seen_all, seen_acc,
                   captures, retry, resized, stale, fresh, effects, written,
                   shader>>

ProcessBlurStep ==
    /\ context.fn = "process_blur"
    /\ context' = Step(context, process_blur_body)
    /\ UNCHANGED <<g_blur_renderer, now, last, ever, seen_all, seen_acc,
                   captures, retry, resized, stale, fresh, effects, written,
                   shader>>

NextContext == RenderCaptures \/ CaptureBackgroundStep \/ ProcessBlurStep

SpecContext == Init /\ [][NextContext]_vars

\* ================================================================== claims
Drew == <<"AddImageRounded", "blur_srv_">> \in last.calls
Attempted == <<"enter", "capture_background">> \in last.calls
Captured == <<"CopySubresourceRegion", "background_capture_">> \in last.calls
Blurred == <<"enter", "process_blur">> \in last.calls
NoTargets ==
    /\ g_blur_renderer.background_capture_ = NullTexture
    /\ ~g_blur_renderer.background_srv_
    /\ g_blur_renderer.temp_texture_ = NullTexture
    /\ ~g_blur_renderer.temp_rtv_ /\ ~g_blur_renderer.temp_srv_
    /\ g_blur_renderer.blur_texture_ = NullTexture
    /\ ~g_blur_renderer.blur_rtv_ /\ ~g_blur_renderer.blur_srv_

\* C1 as stated, over every render() call: a draw is issued only if
\* should_blur has been true on every call since its latest false-to-true
\* edge at t0 and some call since then had t - t0 >= its delay_time.
C1_DrawOnlyAfterDelayAllCalls == Drew => seen_all.ripe

\* C1, amended to the calls that returned true: a draw is issued only if
\* should_blur has been true on every such call since its latest
\* false-to-true edge at t0 and some such call since then had
\* t - t0 >= its delay_time.
C1_DrawOnlyAfterDelay == Drew => seen_acc.ripe

\* a blur drawn at a later time than its activation
C1_Witness == Drew /\ seen_acc.ripe /\ now > seen_acc.rise

\* C2 as stated, over every render() call: once a call had should_blur =
\* false, a capture is attempted only in a call with t - t0 >= delay_time and
\* a blur is drawn only after such a call, t0 being the time of the first
\* call with should_blur = true after the latest call with should_blur = false.
C2_DeactivationResetsAllCalls ==
    ever.off => (Attempted => last.due_all) /\ (Drew => seen_all.ripe)

\* C2, amended to the calls that returned true.
C2_DeactivationResets ==
    ever.off_acc => (Attempted => last.due_acc) /\ (Drew => seen_acc.ripe)

\* a capture after a deactivation, at a later time than the reactivation
C2_Witness == ever.off_acc /\ Captured /\ last.due_acc /\ now > seen_acc.rise

\* C3: while no call has had should_blur = true, no draw command is issued,
\* ensure_render_targets is not entered and no texture is allocated.
C3_NoBlurNoWork ==
    ~ever.on =>
        /\ ~Drew
        /\ <<"enter", "ensure_render_targets">> \notin last.calls
        /\ <<"Create", "target">> \notin last.calls
        /\ NoTargets

\* a call with a new size that returned true, at a later time, should_blur
\* never having been true
C3_Witness ==
    ~ever.on /\ last.ret /\ now > 0 /\ g_blur_renderer.width_ = 2
    /\ <<"GetImmediateContext", "device_">> \notin last.calls

\* C4: after a capture that failed for want of a bound render target, the
\* next call with should_blur still true (same device, same size) attempts
\* the capture again, and captures and draws if a render target is bound.
C4_CaptureRetried ==
    last.retry_due => Attempted /\ (last.rtv => Captured /\ Drew)

\* C5: after a resize in the Captured state with should_blur held true
\* (same device, size then unchanged, allocation and capture succeeding),
\* nothing is drawn in the resize call, and the blur has been drawn again by
\* any later call at t with t - (time of the resize) >= its delay_time.
C5_ResizeRecovers ==
    resized.active =>
        /\ ~resized.later => ~resized.drawn
        /\ resized.owed => resized.drawn

\* C6: a call whose truncated size differs from the accepted one in the
\* Captured state releases all textures and draws nothing; nothing is drawn
\* until a capture has succeeded after a new false-to-true edge and its
\* delay; a draw always shows a texture of the call's truncated size.
C6_ResizeInvalidates ==
    /\ last.resize_hit => NoTargets /\ ~Drew
    /\ stale.on => ~Drew
    /\ Drew => /\ g_blur_renderer.blur_texture_.w = last.size[1]
               /\ g_blur_renderer.blur_texture_.h = last.size[2]

\* a resize that hit the Captured state and released its textures
C6_Witness ==
    last.resize_hit /\ last.should_blur /\ <<"Release", "target">> \in last.calls

\* C7: from a device change in the Captured state with a successful
\* re-initialisation on, every call returns the same value and makes the same
\* captures, blur passes and draws as a newly constructed renderer given the
\* same calls.
C7_FreshAfterDeviceChange == fresh.on => fresh.agree

\* C8: a call with a null device, a null draw list or a truncated width or
\* height <= 0 returns false and issues no GPU call.
C8_DegenerateNoGpu ==
    (last.called /\ (last.null_handle \/ last.degenerate))
        => ~last.ret /\ last.calls = {}

\* C9: a call in the Captured state with the same device, the same truncated
\* size and should_blur = true releases and allocates no texture, does not
\* enter capture_background or process_blur and leaves the state Captured;
\* at most one capture happens between a false-to-true edge and the next
\* deactivation or resize.
C9_SteadyState ==
    /\ last.steady =>
           /\ <<"Release", "target">> \notin last.calls
           /\ <<"Create", "target">> \notin last.calls
           /\ ~Attempted /\ ~Blurred
           /\ g_blur_renderer.blur_processed_
    /\ captures <= 1

\* a steady frame that redraws the captured blur
C9_Witness == last.steady /\ Drew /\ captures = 1

\* C10: render returns false exactly when a handle is null, the truncated
\* width or height is <= 0, or initialisation failed in that call.
C10_ReturnValue ==
    last.called =>
        (~last.ret <=> (last.null_handle \/ last.degenerate \/ last.init_failed))

\* a call that returned true although its capture failed
C10_Witness == last.ret /\ Attempted /\ ~Captured /\ ~Drew


\* a call on a renderer that a failed initialisation left uninitialised
\* attempts the initialisation once and, when it succeeds, goes on to the
\* size check
RetriesInit ==
    /\ effects.init_tries = 1
    /\ ~last.init_failed =>
           /\ g_blur_renderer.initialized_
           /\ last.ret <=> ~last.degenerate

\* the failing call itself: false, uninitialised, one attempt, nothing else
FailedInitCall ==
    last.init_failed =>
        /\ ~last.ret /\ ~g_blur_renderer.initialized_
        /\ effects.init_tries = 1
        /\ ~Attempted /\ ~Blurred /\ ~Drew

\* C11 as stated: a failed initialisation returns false, leaves the renderer
\* uninitialised and does one attempt and no capture, blur pass or draw;
\* every later call with a non-null device attempts it again and goes on
\* normally when it succeeds.
C11_InitRetriedValidDevice ==
    /\ FailedInitCall
    /\ (last.called /\ effects.uninit_before /\ effects.valid_device) => RetriesInit

\* C11, amended to the later calls with a non-null device and a non-null
\* draw list: a failed initialisation returns false, leaves the renderer
\* uninitialised and does one attempt and no capture, blur pass or draw;
\* every such later call attempts it again and goes on normally when it
\* succeeds.
C11_InitRetried ==
    /\ FailedInitCall
    /\ (last.called /\ effects.uninit_before /\ ~last.null_handle) => RetriesInit

\* a call after a failed initialisation that initialises, captures and draws
C11_Witness ==
    effects.uninit_before /\ ~last.init_failed /\ last.ret /\ Captured /\ Drew

\* the three textures have this width and height
SizedSet(s, size) ==
    /\ s.background_capture_.w = size[1] /\ s.background_capture_.h = size[2]
    /\ s.temp_texture_.w = size[1] /\ s.temp_texture_.h = size[2]
    /\ s.blur_texture_.w = size[1] /\ s.blur_texture_.h = size[2]

\* ensure_render_targets returned false in this call: render() calls
\* capture_background exactly when it returns true (lines 173-174)
EnsureFailed == <<"enter", "ensure_render_targets">> \in last.calls /\ ~Attempted

\* C12: whenever ensure_render_targets returns failure, none of the eight
\* texture / view handles is held on return and the state is not Captured.
C12_AllocationAllOrNothing ==
    EnsureFailed => NoTargets /\ ~g_blur_renderer.blur_processed_

\* C16: whenever ensure_render_targets returns success the complete set of
\* textures and views is held with the requested width and height, so that
\* capture_background and process_blur never run against a missing or
\* partial set.
C16_CompleteSet ==
    (Attempted \/ Blurred) =>
        FullSet(g_blur_renderer) /\ SizedSet(g_blur_renderer, last.size)

\* C17: at the return of every render call either all nine pipeline objects
\* are held and the renderer is marked initialized, or none is held and it
\* is marked uninitialized; process_blur never runs with one missing.
C17_PipelineAllOrNothing ==
    /\ last.called =>
           \/ FullPipeline(g_blur_renderer) /\ g_blur_renderer.initialized_
           \/ NoPipeline(g_blur_renderer) /\ ~g_blur_renderer.initialized_
    /\ Blurred => FullPipeline(g_blur_renderer)

\* C13: every render call appends at most one draw command to the draw
\* list; it appends exactly one, showing blur_srv_ over the rectangle from
\* window_pos to window_pos + window_size with the call's corner_radius,
\* exactly when it returns true with should_blur set, blur_processed_ set
\* and blur_srv_ held, and none otherwise.
CompositeCommand ==
    [user_texture_id |-> "blur_srv_",
     p_min |-> effects.window_pos,
     p_max |-> <<effects.window_pos[1] + effects.window_size[1],
                 effects.window_pos[2] + effects.window_size[2]>>,
     rounding |-> effects.corner_radius]
C13_CompositeDrawCount ==
    last.called =>
        effects.draw_list =
            IF /\ last.ret /\ effects.should_blur
               /\ g_blur_renderer.blur_processed_ /\ g_blur_renderer.blur_srv_
            THEN <<CompositeCommand>> ELSE <<>>
C13_Witness ==
    /\ last.called /\ Len(effects.draw_list) = 1
    /\ effects.window_pos = <<1, 3>> /\ effects.window_size = <<3, 2>>
    /\ effects.corner_radius = 2

\* C15: within one render call the events come in the order
\* ensure_render_targets, capture_background, process_blur (horizontal pass,
\* then vertical pass), composite draw; process_blur runs only after
\* capture_background copied the background in the same call, and the draw
\* comes after the passes.
C15_IntraFrameOrder == last.called => effects.in_order
C15_Witness ==
    /\ last.called /\ effects.in_order
    /\ Attempted /\ Captured /\ Blurred /\ Drew

\* C20: whenever a draw command is issued, the final texture it shows is
\* held, has the truncated window size of this call, was created on the
\* device held now, and has been written by a horizontal-then-vertical run
\* of process_blur since it was allocated.
C20_FreshTextureDrawn ==
    Drew =>
        /\ g_blur_renderer.blur_srv_
        /\ g_blur_renderer.blur_texture_ # NullTexture
        /\ g_blur_renderer.blur_texture_.w = last.size[1]
        /\ g_blur_renderer.blur_texture_.h = last.size[2]
        /\ g_blur_renderer.blur_texture_.dev = g_blur_renderer.device_
        /\ written
\* a draw in a later call than the one that blurred, on the second device
C20_Witness ==
    /\ Drew /\ ~Blurred /\ written
    /\ g_blur_renderer.device_ = 2 /\ last.size = <<2, 1>>

\* C14: in both passes the nine tap weights w(i), i in -4..4, are positive,
\* so their sum is; the value returned for a channel is
\* sum(w(i) * sample_i) / sum(w(i)), which is neither above the largest nor
\* below the smallest of the nine sampled values.
RECURSIVE SumOfWeights(_, _)
SumOfWeights(from, to) ==
    IF from > to THEN 0 ELSE weight(from) + SumOfWeights(from + 1, to)
RECURSIVE WeightedSum(_, _, _)
WeightedSum(samples, from, to) ==
    IF from > to THEN 0
    ELSE weight(from) * samples[from + radius + 1] + WeightedSum(samples, from + 1, to)
Largest(samples) ==
    CHOOSE x \in SampleValues :
        /\ \E k \in 1..Len(samples) : samples[k] = x
        /\ \A k \in 1..Len(samples) : samples[k] <= x
Smallest(samples) ==
    CHOOSE x \in SampleValues :
        /\ \E k \in 1..Len(samples) : samples[k] = x
        /\ \A k \in 1..Len(samples) : samples[k] >= x
C14_KernelNormalized ==
    /\ \A i \in -radius..radius : weight(i) > 0
    /\ shader.returned =>
        /\ Len(shader.samples) = 2 * radius + 1
        /\ shader.value.den = SumOfWeights(-radius, radius)
        /\ shader.value.den > 0
        /\ shader.value.num = WeightedSum(shader.samples, -radius, radius)
        /\ shader.value.num <= Largest(shader.samples) * shader.value.den
        /\ shader.value.num >= Smallest(shader.samples) * shader.value.den
\* a vertical pass over unequal samples, the result strictly between them
C14_Witness ==
    /\ shader.returned /\ shader.source = "vertical_blur_source_"
    /\ shader.samples[1] = 0 /\ shader.samples[5] = 128 /\ shader.samples[9] = 255
    /\ shader.value.num < Largest(shader.samples) * shader.value.den
    /\ shader.value.num > Smallest(shader.samples) * shader.value.den

\* C18: when process_blur has returned, the render target, the
\* depth-stencil view and the first viewport bound on the context are those
\* bound when it was entered and slot 0 of the pixel-shader resources is
\* null; while it runs, the texture bound as render target is never the
\* texture bound to slot 0.
Aliased(c) ==
    TextureOf(c.om_rtv) # "null" /\ TextureOf(c.om_rtv) = TextureOf(c.ps_srv)
C18_BindingsPreserved ==
    /\ (context.fn = "idle" /\ context.returned = "process_blur") =>
           /\ context.om_rtv = context.entry.rtv
           /\ context.om_dsv = context.entry.dsv
           /\ FirstViewport(context) = context.entry.viewport
           /\ context.ps_srv = "null"
    /\ context.fn = "process_blur" => ~Aliased(context)
\* process_blur has run on a complete set and returned, with a render
\* target, a depth-stencil view and a viewport bound by the host
C18_Witness ==
    /\ context.fn = "idle" /\ context.returned = "process_blur"
    /\ context.blur_processed_ /\ context.created = Len(TargetViews)
    /\ context.entry = [rtv |-> "host_rtv", dsv |-> "host_dsv", viewport |-> <<8, 6>>]
    /\ context.om_rtv = "host_rtv"

\* C19: when the capture block of a render call is over, the renderer
\* holds no reference on the host's render-target view, depth-stencil view
\* or back buffer: each one acquired through OMGetRenderTargets or
\* GetResource has been released once, whatever the host had bound.
C19_ReferencesBalanced ==
    context.fn = "idle" => \A o \in HostObjects : context.refs[o] = 0

\* C21: at the return of every render call the three activation flags
\* encode one of Idle, PendingCapture, Captured: blur_capture_pending_ and
\* blur_processed_ are not both set, blur_processed_ is set exactly when
\* background_captured_ is, and blur_capture_pending_ is set only if the
\* latest call that returned true had should_blur set.
ActivationState(s) ==
    CASE s.blur_capture_pending_ /\ ~s.blur_processed_ /\ ~s.background_captured_
             -> "PendingCapture"
      [] ~s.blur_capture_pending_ /\ s.blur_processed_ /\ s.background_captured_
             -> "Captured"
      [] ~s.blur_capture_pending_ /\ ~s.blur_processed_ /\ ~s.background_captured_
             -> "Idle"
      [] OTHER -> "none"
C21_FlagsEncodeOneState ==
    last.called =>
        /\ ~(g_blur_renderer.blur_capture_pending_ /\ g_blur_renderer.blur_processed_)
        /\ g_blur_renderer.blur_processed_ <=> g_blur_renderer.background_captured_
        /\ g_blur_renderer.blur_capture_pending_ =>
               seen_acc.prev /\ g_blur_renderer.blur_enabled_last_frame_
        /\ ActivationState(g_blur_renderer) # "none"
\* a call that returns in PendingCapture after time has passed
C21_Witness ==
    /\ last.called /\ last.ret /\ now > 0
    /\ ActivationState(g_blur_renderer) = "PendingCapture"
    /\ seen_acc.prev
====
